---------------------------- MODULE Spec2Model ----------------------------
(***************************************************************************)
(* Model of server/app/image.py: the GET /images handler get_all_images    *)
(* (the containerd branch driven by crictl, the harbor walk projects ->    *)
(* repositories -> artifacts -> tags) and encode_repository_name.          *)
(*                                                                         *)
(* Python strings that the code slices, splits or rewrites are modelled as *)
(* sequences of one-character strings.  Opaque texts (error messages, tag  *)
(* names) are modelled as TLA+ strings or small tuples.  Definitions       *)
(* marked "Variant" are deliberately wrong versions of the definition that *)
(* follows them; the properties are required to tell the two apart.        *)
(***************************************************************************)
EXTENDS Integers, Sequences, FiniteSets, TLC

VARIABLES
    \* ---- one request to get_all_images -------------------------------
    pc,              \* position in get_all_images
    registry,        \* what the Harbor registry holds (external)
    harbor_cfg,      \* app.config['APP_SETTINGS']['harbor_config']
    result,          \* the dict built at lines 196-200
    harbor_images,   \* the local list of line 242
    projects,        \* the project list of line 235
    repositories,    \* the repository list of line 246
    pidx,            \* index of `project` in `projects` (loop of line 243)
    ridx,            \* index of `repo` in `repositories` (loop of line 252)
    artifacts,       \* the artifact list of line 264
    process,         \* how the crictl invocation went and what was parsed
    calls,           \* external calls made by the containerd branch, in order
    requests,        \* registry collection fetches issued, in order
    response,        \* <<>> until the handler returns, then <<the response>>
    \* ---- one call of encode_repository_name ---------------------------
    enc_pc,
    full_repo_name,
    project_name,
    encoded_name

aggVars == <<pc, registry, harbor_cfg, result, harbor_images, projects,
             repositories, artifacts, pidx, ridx, process, calls, requests, response>>
encVars == <<enc_pc, full_repo_name, project_name, encoded_name>>
vars == <<aggVars, encVars>>

---------------------------------------------------------------------------
(* Bounds *)

MaxLen == 4        \* longest repository / project name given to SpecEncode
MaxProjects == 2   \* projects in the registry
MaxRepos == 3      \* repositories in the registry, over all its projects
MaxArtifacts == 3  \* artifacts per repository (registries of style "mixed")
MaxTags == 2       \* tags per artifact (registries of style "mixed")
MaxFaults == 2     \* registry fetches of one request that fail or are malformed

---------------------------------------------------------------------------
(* Python string helpers, on sequences of characters *)

\* str.startswith(prefix)
StartsWith(s, prefix) ==
    /\ Len(prefix) <= Len(s)
    /\ SubSeq(s, 1, Len(prefix)) = prefix

\* s[n:] for 0 <= n
SliceFrom(s, n) == SubSeq(s, n + 1, Len(s))

\* 1-based position of the first c in s at or after i, 0 when there is none
RECURSIVE Find(_, _, _)
Find(s, c, i) ==
    IF i > Len(s) THEN 0
    ELSE IF s[i] = c THEN i
    ELSE Find(s, c, i + 1)

\* s.split(c, 1)
SplitOnce(s, c) ==
    LET k == Find(s, c, 1)
    IN  IF k = 0 THEN <<s>>
        ELSE <<SubSeq(s, 1, k - 1), SliceFrom(s, k)>>

\* s.replace(c, new), c one character
RECURSIVE Replace(_, _, _)
Replace(s, c, new) ==
    IF s = <<>> THEN <<>>
    ELSE (IF Head(s) = c THEN new ELSE <<Head(s)>>) \o Replace(Tail(s), c, new)

\* the literal '%252F'
DoubleEncodedSlash == <<"%", "2", "5", "2", "F">>

\* Variant: the prefix is cut without its trailing slash
\* (full_repo_name[len(project_name):]).
EncodeKeepsSeparator(full, proj) ==
    LET repo_path ==
            IF StartsWith(full, proj \o <<"/">>)
            THEN SliceFrom(full, Len(proj))
            ELSE LET parts == SplitOnce(full, "/")
                 IN  IF Len(parts) > 1 THEN parts[2] ELSE full
    IN  Replace(repo_path, "/", DoubleEncodedSlash)

\* encode_repository_name(full_repo_name, project_name)
EncodeRepositoryName(full, proj) ==
    LET repo_path ==
            IF StartsWith(full, proj \o <<"/">>)
            THEN SliceFrom(full, Len(proj) + 1)
            ELSE LET parts == SplitOnce(full, "/")
                 IN  IF Len(parts) > 1 THEN parts[2] ELSE full
    IN  Replace(repo_path, "/", DoubleEncodedSlash)

---------------------------------------------------------------------------
(* The registry: what each collection endpoint holds.  A registry is given  *)
(* by the number of repositories of each project and a tagging style; names, *)
(* artifacts, sizes and tags follow from the indices.                        *)

Repeat(c, n) == [k \in 1..n |-> c]

\* project['name'] of the i-th project
ProjectNameOf(i) == Repeat("p", i)

\* the path of the j-th repository below its project; even ones are nested
\* (proxy-cache style)
RepoPathOf(j) ==
    IF j % 2 = 1 THEN Repeat("r", j) ELSE <<"r", "/">> \o Repeat("r", j - 1)

\* repo['name'] of the j-th repository of the i-th project: the full name
RepoNameOf(i, j) == ProjectNameOf(i) \o <<"/">> \o RepoPathOf(j)

NumArtifacts(reg, i, j) ==
    IF reg.style = "single" THEN 5 ELSE (2 * i + j) % (MaxArtifacts + 1)

\* -1: the artifact has no 'tags' key; 0: an empty tag list
NumTags(reg, i, j, k) ==
    IF reg.style = "single" THEN 1 ELSE ((i + j + k) % (MaxTags + 2)) - 1

\* raw byte counts
SizeOf(i, j, k) ==
    CASE (i + j + k) % 4 = 0 -> 1
      [] (i + j + k) % 4 = 1 -> 512
      [] (i + j + k) % 4 = 2 -> 1500
      [] OTHER -> 2000000

TagOf(k, t) == [name |-> <<k, t>>]

ArtifactOf(reg, i, j, k) ==
    LET n == NumTags(reg, i, j, k)
        base == [digest |-> <<i, j, k>>, size |-> SizeOf(i, j, k)]
    IN  IF n < 0 THEN base
        ELSE [digest |-> base.digest, size |-> base.size,
              tags |-> [t \in 1..n |-> TagOf(k, t)]]

ArtifactsOf(reg, i, j) ==
    [k \in 1..NumArtifacts(reg, i, j) |-> ArtifactOf(reg, i, j, k)]

Without(rec, f) == [g \in (DOMAIN rec) \ {f} |-> rec[g]]

\* What an artifact fetch returns: the repository's artifacts, or the same
\* with one field of the last artifact missing (a malformed item).
ArtifactsReturned(reg, i, j, outcome) ==
    LET arts == ArtifactsOf(reg, i, j)
        n == Len(arts)
        last == arts[n]
    IN  IF n = 0 \/ outcome = "ok" THEN arts
        ELSE IF outcome = "no_size"
             THEN [arts EXCEPT ![n] = Without(last, "size")]
        ELSE IF outcome = "no_digest"
             THEN [arts EXCEPT ![n] = Without(last, "digest")]
        ELSE IF "tags" \in DOMAIN last /\ last.tags # <<>>
             THEN [arts EXCEPT ![n] =
                     [digest |-> last.digest, size |-> last.size,
                      tags |-> [last.tags EXCEPT ![1] = Without(@, "name")]]]
        ELSE arts

ProjectsOf(reg) == [i \in 1..Len(reg.counts) |-> [name |-> ProjectNameOf(i)]]

ProjectIndex(reg, name) ==
    CHOOSE i \in 1..Len(reg.counts) : ProjectNameOf(i) = name

RepositoriesOf(reg, i) == [j \in 1..reg.counts[i] |-> [name |-> RepoNameOf(i, j)]]

RepoIndex(reg, i, name) ==
    CHOOSE j \in 1..reg.counts[i] : RepoNameOf(i, j) = name

RECURSIVE SeqsUpTo(_, _)
SeqsUpTo(S, n) ==
    IF n = 0 THEN {<<>>}
    ELSE LET shorter == SeqsUpTo(S, n - 1)
         IN  shorter \cup {Append(s, x) : s \in shorter, x \in S}

RECURSIVE Sum(_)
Sum(s) == IF s = <<>> THEN 0 ELSE Head(s) + Sum(Tail(s))

Registries ==
    {[counts |-> c, style |-> "mixed"] :
        c \in {s \in SeqsUpTo(0..MaxRepos, MaxProjects) : Sum(s) <= MaxRepos}}
    \cup {[counts |-> <<1, 2>>, style |-> "single"]}

---------------------------------------------------------------------------
(* get_all_images: the pieces *)

\* humanize.naturalsize(n): decimal units, one digit after the point
Scaled(n, unit, suffix) ==
    LET t == (n * 10 + unit \div 2) \div unit
    IN  [num |-> t \div 10, tenths |-> t % 10, unit |-> suffix]

NaturalSize(n) ==
    IF n = 1 THEN [num |-> 1, tenths |-> 0, unit |-> "Byte"]
    ELSE IF n < 1000 THEN [num |-> n, tenths |-> 0, unit |-> "Bytes"]
    ELSE IF n < 1000000 THEN Scaled(n, 1000, "kB")
    ELSE Scaled(n, 1000000, "MB")

\* Variant: the password is left out of the test.
ConfigCompleteWithoutPassword(cfg) == cfg.url # "" /\ cfg.user # ""

\* all([harbor_cfg['url'], harbor_cfg['user'], harbor_cfg['password']])
ConfigComplete(cfg) == cfg.url # "" /\ cfg.user # "" /\ cfg.password # ""

\* Variant: a nonzero exit is only logged.
CrictlFailedSilently(res, stderr) == res

\* The else branch of line 215: crictl exited nonzero.
CrictlFailed(res, stderr) ==
    [res EXCEPT !.errors = Append(@,
        [source |-> "containerd",
         error |-> <<"Failed to execute crictl command: ", stderr>>])]

\* except of line 222
ExceptContainerd(res, e) ==
    [res EXCEPT !.errors = Append(@, [source |-> "containerd", error |-> <<e>>])]

\* Variant: the errors list is replaced instead of appended to.
ExceptArtifactsOverwrites(res, repo_name, e) ==
    [res EXCEPT !.errors =
        <<[source |-> "harbor", repository |-> repo_name,
           error |-> <<"Failed to fetch artifacts: ", e>>]>>]

\* except of line 269 (its `continue` is in Resume)
ExceptArtifacts(res, repo_name, e) ==
    [res EXCEPT !.errors = Append(@,
        [source |-> "harbor", repository |-> repo_name,
         error |-> <<"Failed to fetch artifacts: ", e>>])]

\* Variant: the except clause builds a fresh result around the error.
ExceptHarborRebuildsResult(res, e) ==
    [containerd_images |-> <<>>, harbor_images |-> <<>>,
     errors |-> Append(res.errors, [source |-> "harbor", error |-> <<e>>])]

\* except of line 295
ExceptHarbor(res, e) ==
    [res EXCEPT !.errors = Append(@, [source |-> "harbor", error |-> <<e>>])]

\* else of line 301
ConfigIncomplete(res) ==
    [res EXCEPT !.errors = Append(@,
        [source |-> "harbor", error |-> <<"Harbor configuration incomplete">>])]

\* Variant: the flattening of lines 278-291 stands outside the try of line 232.
HandlerFlattenOutsideTry(site) ==
    CASE site = "crictl" -> "except_containerd"
      [] site = "artifacts" -> "except_artifacts"
      [] site \in {"projects", "repositories"} -> "except_harbor"
      [] OTHER -> "uncaught"

\* The except clause that encloses a raise site: the try of line 203 around
\* the crictl calls, the try of line 263 around the artifact fetch alone, the
\* try of line 232 around everything else of the harbor branch.
Handler(site) ==
    CASE site = "crictl" -> "except_containerd"
      [] site = "artifacts" -> "except_artifacts"
      [] site \in {"projects", "repositories", "flatten"} -> "except_harbor"
      [] OTHER -> "uncaught"

\* Variant: the except of line 295 starts the harbor branch again.
ResumeRetriesHarbor(handler) ==
    CASE handler = "except_containerd" -> "harbor"
      [] handler = "except_artifacts" -> "repo"
      [] handler = "except_harbor" -> "harbor"
      [] OTHER -> "raised"

\* Where control goes after an except clause has run.
Resume(handler) ==
    CASE handler = "except_containerd" -> "harbor"   \* falls to line 229
      [] handler = "except_artifacts" -> "repo"      \* continue, line 276
      [] handler = "except_harbor" -> "return"       \* falls to line 308
      [] OTHER -> "raised"                           \* leaves get_all_images

\* result after the except clause `handler` has run
Handled(res, handler, e, repo_name) ==
    CASE handler = "except_containerd" -> ExceptContainerd(res, e)
      [] handler = "except_artifacts" -> ExceptArtifacts(res, repo_name, e)
      [] handler = "except_harbor" -> ExceptHarbor(res, e)
      [] OTHER -> res

\* Variant: every record of an artifact takes the artifact's first tag.
HarborImageRecordFirstTag(repo_name, proj_name, artifact, tag) ==
    [repository |-> repo_name, tag |-> artifact.tags[1].name,
     digest |-> artifact.digest, size |-> artifact.size, project |-> proj_name]

\* The dict appended at lines 285-291; artifact['size'] is already converted.
HarborImageRecord(repo_name, proj_name, artifact, tag) ==
    [repository |-> repo_name, tag |-> tag.name,
     digest |-> artifact.digest, size |-> artifact.size, project |-> proj_name]

\* The loop of lines 282-291 from artifact a, tag t on: the records appended
\* to acc, and the KeyError that ended it, if any.
RECURSIVE FlattenFrom(_, _, _, _, _, _)
FlattenFrom(arts, a, t, acc, repo_name, proj_name) ==
    IF a > Len(arts) THEN [images |-> acc, raised |-> ""]
    ELSE LET artifact == arts[a]
         IN  IF ~("tags" \in DOMAIN artifact /\ artifact.tags # <<>>)
             THEN FlattenFrom(arts, a + 1, 1, acc, repo_name, proj_name)
             ELSE IF t > Len(artifact.tags)
             THEN FlattenFrom(arts, a + 1, 1, acc, repo_name, proj_name)
             ELSE LET tag == artifact.tags[t]
                  IN  IF "name" \notin DOMAIN tag
                      THEN [images |-> acc, raised |-> "KeyError: 'name'"]
                      ELSE IF "digest" \notin DOMAIN artifact
                      THEN [images |-> acc, raised |-> "KeyError: 'digest'"]
                      ELSE FlattenFrom(arts, a, t + 1,
                               Append(acc, HarborImageRecord(repo_name, proj_name,
                                                             artifact, tag)),
                               repo_name, proj_name)

\* Lines 279-291 for one repository's artifacts.
ProcessArtifacts(arts, acc, repo_name, proj_name) ==
    IF \E k \in 1..Len(arts) : "size" \notin DOMAIN arts[k]
    THEN [images |-> acc, raised |-> "KeyError: 'size'"]
    ELSE FlattenFrom([k \in 1..Len(arts) |->
                          [arts[k] EXCEPT !.size = NaturalSize(@)]],
                     1, 1, acc, repo_name, proj_name)

\* The external calls the containerd branch makes for each way it can go.
CallsMade(outcome) ==
    CASE outcome = "spawn_error" -> <<"Popen">>
      [] outcome \in {"timeout", "nonzero"} -> <<"Popen", "communicate">>
      [] outcome = "ignore_error" ->
            <<"Popen", "communicate", "load_ignored_image_ids">>
      [] OTHER -> <<"Popen", "communicate", "load_ignored_image_ids",
                    "parse_crictl_images_output">>

CrictlOutcomes ==
    {"ok", "nonzero", "timeout", "spawn_error", "ignore_error", "parse_error"}

Image(n) ==
    [repository |-> "docker.io/library/nginx", tag |-> "latest",
     image_id |-> n, size |-> "123 MB"]

\* what parse_crictl_images_output may return
ParsedOutputs == {<<>>, <<Image(1), Image(2)>>}

FetchOutcomes == {"ok", "fail"}

ArtifactFetchOutcomes == {"ok", "fail", "no_size", "no_digest", "no_tag_name"}

HarborConfigs ==
    [url : {"", "https://harbor.local"}, user : {"", "admin"},
     password : {"", "secret"}]

\* Whether one more registry fetch of this request may go wrong.
MayFault(reqs) ==
    Cardinality({k \in 1..Len(reqs) : reqs[k].outcome # "ok"}) < MaxFaults

\* the URLs of lines 234, 245 and 261, without the common base
ProjectsUrl ==
    [collection |-> "projects", project |-> <<>>, repository |-> <<>>]

ReposUrl(proj_name) ==
    [collection |-> "repositories", project |-> proj_name, repository |-> <<>>]

ArtifactsUrl(proj_name, encoded_repo_name) ==
    [collection |-> "artifacts", project |-> proj_name,
     repository |-> encoded_repo_name]

---------------------------------------------------------------------------
(* get_all_images: the steps *)

NoResult == [containerd_images |-> <<>>, harbor_images |-> <<>>, errors |-> <<>>]

EncIdle ==
    /\ enc_pc = "idle"
    /\ full_repo_name = <<>>
    /\ project_name = <<>>
    /\ encoded_name = <<>>

\* lines 196-200, with the configuration loaded at start-up
Init ==
    /\ pc = "crictl"
    /\ registry \in Registries
    /\ harbor_cfg \in HarborConfigs
    /\ result = NoResult
    /\ harbor_images = <<>>
    /\ projects = <<>>
    /\ repositories = <<>>
    /\ artifacts = <<>>
    /\ pidx = 0
    /\ ridx = 0
    /\ process = [outcome |-> "not run", parsed |-> <<>>]
    /\ calls = <<>>
    /\ requests = <<>>
    /\ response = <<>>
    /\ EncIdle

\* lines 203-227
CrictlBranch ==
    /\ pc = "crictl"
    /\ \E outcome \in CrictlOutcomes, parsed \in ParsedOutputs :
         /\ process' = [outcome |-> outcome,
                         parsed |-> IF outcome = "ok" THEN parsed ELSE <<>>]
         /\ calls' = CallsMade(outcome)
         /\ IF outcome = "ok"
            THEN /\ result' = [result EXCEPT !.containerd_images = parsed]
                 /\ pc' = "harbor"
            ELSE IF outcome = "nonzero"
            THEN /\ result' = CrictlFailed(result, "stderr")
                 /\ pc' = "harbor"
            ELSE /\ result' = Handled(result, Handler("crictl"), outcome, <<>>)
                 /\ pc' = Resume(Handler("crictl"))
    /\ UNCHANGED <<registry, harbor_cfg, harbor_images, projects, repositories,
                   artifacts, pidx, ridx, requests, response, encVars>>

\* lines 230-231 and 301-306
HarborConfigIncomplete ==
    /\ pc = "harbor"
    /\ ~ConfigComplete(harbor_cfg)
    /\ result' = ConfigIncomplete(result)
    /\ pc' = "return"
    /\ UNCHANGED <<registry, harbor_cfg, harbor_images, projects, repositories,
                   artifacts, pidx, ridx, process, calls, requests, response, encVars>>

\* lines 230-242
FetchProjects ==
    /\ pc = "harbor"
    /\ ConfigComplete(harbor_cfg)
    /\ \E outcome \in FetchOutcomes :
         /\ outcome # "ok" => MayFault(requests)
         /\ requests' = Append(requests, [url |-> ProjectsUrl, outcome |-> outcome])
         /\ IF outcome = "ok"
            THEN /\ projects' = ProjectsOf(registry)
                 /\ harbor_images' = <<>>
                 /\ pidx' = 1
                 /\ pc' = "project"
                 /\ UNCHANGED result
            ELSE /\ result' = Handled(result, Handler("projects"),
                                      "ConnectionError", <<>>)
                 /\ pc' = Resume(Handler("projects"))
                 /\ UNCHANGED <<projects, harbor_images, pidx>>
    /\ UNCHANGED <<registry, harbor_cfg, artifacts, repositories, ridx, process, calls,
                   response, encVars>>

\* lines 243-250: the next project and its repository list
FetchRepositories ==
    /\ pc = "project"
    /\ pidx <= Len(projects)
    /\ LET proj_name == projects[pidx].name
       IN  \E outcome \in FetchOutcomes :
             /\ outcome # "ok" => MayFault(requests)
             /\ requests' = Append(requests,
                                   [url |-> ReposUrl(proj_name), outcome |-> outcome])
             /\ IF outcome = "ok"
                THEN /\ repositories' =
                          RepositoriesOf(registry, ProjectIndex(registry, proj_name))
                     /\ ridx' = 1
                     /\ pc' = "repo"
                     /\ UNCHANGED result
                ELSE /\ result' = Handled(result, Handler("repositories"),
                                          "ConnectionError", <<>>)
                     /\ pc' = Resume(Handler("repositories"))
                     /\ UNCHANGED <<repositories, ridx>>
    /\ UNCHANGED <<registry, harbor_cfg, artifacts, harbor_images, projects, pidx, process,
                   calls, response, encVars>>

\* lines 252-276: the next repository and the fetch of its artifacts
FetchArtifacts ==
    /\ pc = "repo"
    /\ ridx <= Len(repositories)
    /\ \E outcome \in ArtifactFetchOutcomes :
         LET proj_name == projects[pidx].name
             repo_name == repositories[ridx].name
             encoded == EncodeRepositoryName(repo_name, proj_name)
             i == ProjectIndex(registry, proj_name)
             j == RepoIndex(registry, i, repo_name)
         IN  /\ outcome # "ok" => MayFault(requests)
             /\ requests' = Append(requests,
                                   [url |-> ArtifactsUrl(proj_name, encoded),
                                    outcome |-> outcome])
             /\ IF outcome = "fail"
                THEN /\ result' = Handled(result, Handler("artifacts"),
                                          "ConnectionError", repo_name)
                     /\ pc' = Resume(Handler("artifacts"))
                     /\ ridx' = IF Handler("artifacts") = "except_artifacts"
                                THEN ridx + 1 ELSE ridx
                     /\ UNCHANGED artifacts
                ELSE /\ artifacts' = ArtifactsReturned(registry, i, j, outcome)
                     /\ pc' = "flatten"
                     /\ UNCHANGED <<result, ridx>>
    /\ UNCHANGED <<registry, harbor_cfg, harbor_images, projects, repositories,
                   pidx, process, calls, response, encVars>>

\* lines 278-291: the sizes converted, then one record per tag
FlattenArtifacts ==
    /\ pc = "flatten"
    /\ LET proj_name == projects[pidx].name
           repo_name == repositories[ridx].name
           done == ProcessArtifacts(artifacts, harbor_images, repo_name, proj_name)
       IN  /\ harbor_images' = done.images
           /\ IF done.raised = ""
              THEN /\ pc' = "repo"
                   /\ ridx' = ridx + 1
                   /\ UNCHANGED result
              ELSE /\ result' = Handled(result, Handler("flatten"),
                                        done.raised, repo_name)
                   /\ pc' = Resume(Handler("flatten"))
                   /\ ridx' = IF Handler("flatten") = "except_artifacts"
                              THEN ridx + 1 ELSE ridx
    /\ artifacts' = <<>>      \* not read again before line 264 rebinds it
    /\ UNCHANGED <<registry, harbor_cfg, projects, repositories, pidx, process,
                   calls, requests, response, encVars>>

\* line 252 exhausted: back to line 243 with the next project
NextProject ==
    /\ pc = "repo"
    /\ ridx > Len(repositories)
    /\ pidx' = pidx + 1
    /\ pc' = "project"
    /\ UNCHANGED <<registry, harbor_cfg, artifacts, result, harbor_images, projects,
                   repositories, ridx, process, calls, requests, response, encVars>>

\* line 243 exhausted: lines 293-294
StoreHarborImages ==
    /\ pc = "project"
    /\ pidx > Len(projects)
    /\ result' = [result EXCEPT !.harbor_images = harbor_images]
    /\ pc' = "return"
    /\ UNCHANGED <<registry, harbor_cfg, harbor_images, projects, repositories,
                   artifacts, pidx, ridx, process, calls, requests, response, encVars>>

\* line 308: jsonify(result), which Flask sends with status 200
Return ==
    /\ pc = "return"
    /\ response' = <<[status |-> 200, json |-> result]>>
    /\ pc' = "done"
    /\ UNCHANGED <<registry, harbor_cfg, artifacts, result, harbor_images, projects,
                   repositories, pidx, ridx, process, calls, requests, encVars>>

Next ==
    \/ CrictlBranch
    \/ HarborConfigIncomplete
    \/ FetchProjects
    \/ FetchRepositories
    \/ FetchArtifacts
    \/ FlattenArtifacts
    \/ NextProject
    \/ StoreHarborImages
    \/ Return

Spec == Init /\ [][Next]_vars

---------------------------------------------------------------------------
(* encode_repository_name on its own *)

Alphabet == {"a", "b", "/"}

NvcrProject == <<"n", "v", "c", "r", ".", "i", "o">>
NvcrPytorch == NvcrProject \o <<"/", "n", "v", "i", "d", "i", "a", "/",
                                "p", "y", "t", "o", "r", "c", "h">>
CustomProject == <<"c", "u", "s", "t", "o", "m">>
CustomMyImage == CustomProject \o <<"/", "m", "y", "-", "i", "m", "a", "g", "e">>

EncodeInputs ==
    (SeqsUpTo(Alphabet, MaxLen) \X SeqsUpTo(Alphabet, MaxLen))
    \cup {<<NvcrPytorch, NvcrProject>>, <<CustomMyImage, CustomProject>>,
          <<NvcrPytorch, CustomProject>>}

AggIdle ==
    /\ pc = "idle"
    /\ registry = [counts |-> <<>>, style |-> "mixed"]
    /\ harbor_cfg = [url |-> "", user |-> "", password |-> ""]
    /\ result = NoResult
    /\ harbor_images = <<>>
    /\ projects = <<>>
    /\ repositories = <<>>
    /\ artifacts = <<>>
    /\ pidx = 0
    /\ ridx = 0
    /\ process = [outcome |-> "not run", parsed |-> <<>>]
    /\ calls = <<>>
    /\ requests = <<>>
    /\ response = <<>>

EncodeInit ==
    /\ AggIdle
    /\ enc_pc = "call"
    /\ \E in \in EncodeInputs :
         /\ full_repo_name = in[1]
         /\ project_name = in[2]
    /\ encoded_name = <<>>

\* lines 135-170
Encode ==
    /\ enc_pc = "call"
    /\ encoded_name' = EncodeRepositoryName(full_repo_name, project_name)
    /\ enc_pc' = "returned"
    /\ UNCHANGED <<aggVars, full_repo_name, project_name>>

SpecEncode == EncodeInit /\ [][Encode]_vars

---------------------------------------------------------------------------
(* Vocabulary of the properties *)

RECURSIVE Concat(_)
Concat(ss) == IF ss = <<>> THEN <<>> ELSE Head(ss) \o Concat(Tail(ss))

Range(f) == {f[x] : x \in DOMAIN f}

ErrorIndices == 1..Len(result.errors)

ContainerdErrors == {k \in ErrorIndices : result.errors[k].source = "containerd"}

HarborErrors == {k \in ErrorIndices : result.errors[k].source = "harbor"}

UnscopedHarborErrors ==
    {k \in HarborErrors : "repository" \notin DOMAIN result.errors[k]}

ScopedHarborErrors == HarborErrors \ UnscopedHarborErrors

ErrorsNaming(repo_name) ==
    {k \in ScopedHarborErrors : result.errors[k].repository = repo_name}

AllConfigured ==
    harbor_cfg.url # "" /\ harbor_cfg.user # "" /\ harbor_cfg.password # ""

IncompleteError ==
    [source |-> "harbor", error |-> <<"Harbor configuration incomplete">>]

RequestIndices == 1..Len(requests)

FailedListFetches ==
    {k \in RequestIndices :
        /\ requests[k].url.collection \in {"projects", "repositories"}
        /\ requests[k].outcome = "fail"}

Repos == {<<i, j>> \in (1..Len(registry.counts)) \X (1..MaxRepos) :
              j <= registry.counts[i]}

\* The outcome of the artifact fetch of repository j of project i, "none"
\* when it was not issued.
ArtifactOutcome(i, j) ==
    LET url == ArtifactsUrl(ProjectNameOf(i),
                            EncodeRepositoryName(RepoNameOf(i, j), ProjectNameOf(i)))
        ks == {k \in RequestIndices : requests[k].url = url}
    IN  IF ks = {} THEN "none" ELSE requests[CHOOSE k \in ks : TRUE].outcome

Fetched(i, j) == ArtifactOutcome(i, j) \notin {"none", "fail"}

TagsOf(artifact) == IF "tags" \in DOMAIN artifact THEN artifact.tags ELSE <<>>

\* An item whose use at lines 280-288 raises KeyError.
Malformed(arts) ==
    \E k \in 1..Len(arts) :
        \/ "size" \notin DOMAIN arts[k]
        \/ /\ TagsOf(arts[k]) # <<>>
           /\ \/ "digest" \notin DOMAIN arts[k]
              \/ \E t \in 1..Len(arts[k].tags) : "name" \notin DOMAIN arts[k].tags[t]

\* One record per (artifact, tag) pair, in order.
RecordsOfArtifact(i, j, artifact) ==
    [t \in 1..Len(TagsOf(artifact)) |->
        [repository |-> RepoNameOf(i, j), tag |-> artifact.tags[t].name,
         digest |-> artifact.digest, size |-> NaturalSize(artifact.size),
         project |-> ProjectNameOf(i)]]

RecordsOfRepo(i, j) ==
    IF ~Fetched(i, j) THEN <<>>
    ELSE LET arts == ArtifactsReturned(registry, i, j, ArtifactOutcome(i, j))
         IN  Concat([k \in 1..Len(arts) |-> RecordsOfArtifact(i, j, arts[k])])

RecordsOfProject(i) ==
    Concat([j \in 1..registry.counts[i] |-> RecordsOfRepo(i, j)])

\* The records of every repository whose artifact fetch succeeded, in
\* traversal order.
ExpectedRecords ==
    Concat([i \in 1..Len(registry.counts) |-> RecordsOfProject(i)])

\* The harbor walk was cut short: a list fetch failed or an item was malformed.
Halted ==
    \/ FailedListFetches # {}
    \/ \E r \in Repos :
         /\ Fetched(r[1], r[2])
         /\ Malformed(ArtifactsReturned(registry, r[1], r[2],
                                        ArtifactOutcome(r[1], r[2])))

WellFormedRun ==
    \A r \in Repos : ArtifactOutcome(r[1], r[2]) \in {"none", "ok", "fail"}

IsPrefix(s, t) == Len(s) <= Len(t) /\ SubSeq(t, 1, Len(s)) = s

ExampleRegistry == [counts |-> <<1, 2>>, style |-> "single"]

---------------------------------------------------------------------------
(* C1 *)

\* C1: source isolation.  In the response, containerd_images are what the
\* crictl branch produced (the parsed list on success, nothing otherwise)
\* whatever the harbor branch did, and harbor_images are what the harbor
\* branch produces from the configuration, the registry and its fetch
\* outcomes alone, whatever the crictl branch did; containerd success with an
\* unreachable registry gives the parsed containerd_images and a harbor error.
C1_SourceIsolation ==
    pc = "done" =>
        LET body == response[1].json
        IN  /\ body.containerd_images =
                 (IF process.outcome = "ok" THEN process.parsed ELSE <<>>)
            /\ body.harbor_images =
                 (IF ~AllConfigured \/ Halted THEN <<>> ELSE ExpectedRecords)
            /\ (/\ process.outcome = "ok"
                /\ AllConfigured
                /\ requests[1].outcome = "fail")
               => /\ body.containerd_images = process.parsed
                  /\ \E k \in 1..Len(body.errors) : body.errors[k].source = "harbor"

C1_Witness ==
    /\ pc = "done"
    /\ process.outcome = "ok"
    /\ response[1].json.containerd_images = <<Image(1), Image(2)>>
    /\ AllConfigured
    /\ requests = <<[url |-> ProjectsUrl, outcome |-> "fail"]>>
    /\ HarborErrors # {}

---------------------------------------------------------------------------
(* C2 *)

\* C2 (as claimed): when artifact fetches fail during a walk over well-formed
\* items, each failed repository has exactly one error naming it, and the
\* response's harbor_images are the records of every other repository whose
\* artifact fetch succeeded, with no record of a failed repository.
C2_FailedRepositorySkipped ==
    (/\ pc = "done"
     /\ WellFormedRun
     /\ \E r \in Repos : ArtifactOutcome(r[1], r[2]) = "fail")
    => /\ \A r \in Repos :
            ArtifactOutcome(r[1], r[2]) = "fail"
            => /\ Cardinality(ErrorsNaming(RepoNameOf(r[1], r[2]))) = 1
               /\ \A k \in 1..Len(response[1].json.harbor_images) :
                    response[1].json.harbor_images[k].repository
                        # RepoNameOf(r[1], r[2])
       /\ response[1].json.harbor_images = ExpectedRecords

\* With no list fetch failing and no malformed item, the statement of C2
\* holds: what breaks it is only the loss of harbor_images when the walk is
\* cut short (C4).
C2_HoldsWhenWalkCompletes ==
    (/\ pc = "done"
     /\ ~Halted
     /\ \E r \in Repos : ArtifactOutcome(r[1], r[2]) = "fail")
    => /\ \A r \in Repos :
            ArtifactOutcome(r[1], r[2]) = "fail"
            => /\ Cardinality(ErrorsNaming(RepoNameOf(r[1], r[2]))) = 1
               /\ \A k \in 1..Len(response[1].json.harbor_images) :
                    response[1].json.harbor_images[k].repository
                        # RepoNameOf(r[1], r[2])
       /\ response[1].json.harbor_images = ExpectedRecords

---------------------------------------------------------------------------
(* C3 *)

\* C3: a failed fetch of the project list or of a repository list is the last
\* registry fetch of the request, and leaves exactly one harbor error without
\* a repository field.
C3_ListFailureStopsWalk ==
    \A k \in FailedListFetches :
        /\ k = Len(requests)
        /\ Cardinality(UnscopedHarborErrors) = 1
        /\ pc \in {"return", "done"}

C3_Witness ==
    /\ pc = "done"
    /\ Len(requests) >= 3
    /\ requests[Len(requests)].url.collection = "repositories"
    /\ requests[Len(requests)].outcome = "fail"
    /\ pidx = 2
    /\ Cardinality(UnscopedHarborErrors) = 1

---------------------------------------------------------------------------
(* C4 *)

\* C4 (as claimed): when the walk is halted by a failed repository-list fetch,
\* the response's harbor_images are the records already flattened from the
\* repositories fetched before.
C4_PartialRecordsReturned ==
    (/\ pc = "done"
     /\ WellFormedRun
     /\ \E k \in FailedListFetches : requests[k].url.collection = "repositories")
    => response[1].json.harbor_images = ExpectedRecords

---------------------------------------------------------------------------
(* C5 *)

\* C5: with url, user or password empty no registry request is ever issued,
\* harbor_images stay empty and the response has exactly one harbor error, the
\* "Harbor configuration incomplete" one; with all three set that error is
\* never recorded and the first request fetches the project list.
C5_IncompleteConfigSkipsHarbor ==
    /\ ~AllConfigured =>
          /\ requests = <<>>
          /\ result.harbor_images = <<>>
          /\ pc \in {"return", "done"} =>
                /\ Cardinality(HarborErrors) = 1
                /\ \A k \in HarborErrors : result.errors[k] = IncompleteError
    /\ AllConfigured =>
          /\ \A k \in ErrorIndices : result.errors[k] # IncompleteError
          /\ pc \in {"project", "repo", "return", "done"} =>
                /\ requests # <<>>
                /\ requests[1].url = ProjectsUrl

C5_Witness ==
    /\ pc = "done"
    /\ harbor_cfg.url # ""
    /\ harbor_cfg.user # ""
    /\ harbor_cfg.password = ""
    /\ requests = <<>>
    /\ response[1].json.errors = <<IncompleteError>>

---------------------------------------------------------------------------
(* C6 *)

Responded ==
    /\ pc = "done"
    /\ Len(response) = 1
    /\ response[1].status = 200
    /\ DOMAIN response[1].json = {"containerd_images", "harbor_images", "errors"}
    /\ response[1].json = result

\* C6: no exception leaves get_all_images; it ends with a 200 response whose
\* body has exactly the fields containerd_images, harbor_images and errors,
\* and short of that it always has a next step.
C6_AlwaysResponds ==
    /\ pc # "raised"
    /\ pc = "done" => Responded
    /\ pc # "done" => ENABLED Next

C6_Witness ==
    /\ pc = "done"
    /\ process.outcome = "timeout"
    /\ requests # <<>>
    /\ requests[Len(requests)].outcome \in {"no_size", "no_digest", "no_tag_name"}
    /\ UnscopedHarborErrors # {}
    /\ response[1].status = 200

---------------------------------------------------------------------------
(* C7 *)

\* C7: after crictl exited nonzero, timed out or could not be spawned,
\* containerd_images are empty, there is exactly one containerd error, without
\* a repository field, neither the ignore list was loaded nor the parser
\* called, and the harbor branch still runs.
C7_CrictlFailureContained ==
    process.outcome \in {"nonzero", "timeout", "spawn_error"} =>
        /\ result.containerd_images = <<>>
        /\ Cardinality(ContainerdErrors) = 1
        /\ \A k \in ContainerdErrors : "repository" \notin DOMAIN result.errors[k]
        /\ "load_ignored_image_ids" \notin Range(calls)
        /\ "parse_crictl_images_output" \notin Range(calls)
        /\ pc # "raised"
        /\ pc \in {"return", "done"} =>
              \/ requests # <<>>
              \/ \E k \in HarborErrors : result.errors[k] = IncompleteError

C7_Witness ==
    /\ pc = "done"
    /\ process.outcome = "timeout"
    /\ Cardinality(ContainerdErrors) = 1
    /\ response[1].json.containerd_images = <<>>
    /\ response[1].json.harbor_images # <<>>

---------------------------------------------------------------------------
(* C8 *)

\* C8: when the walk completes without an unscoped failure, harbor_images is
\* one record per (artifact, tag) pair of every repository whose artifact
\* fetch succeeded, in traversal order, each with the repository's full name,
\* the project's name, the artifact's digest and its converted size; the
\* registry of 2 projects, 3 repositories and 5 singly tagged artifacts each
\* gives 15 records when every fetch succeeds.
C8_OneRecordPerTag ==
    (/\ pc = "done"
     /\ AllConfigured
     /\ UnscopedHarborErrors = {})
    => /\ response[1].json.harbor_images = ExpectedRecords
       /\ (/\ registry = ExampleRegistry
           /\ \A k \in RequestIndices : requests[k].outcome = "ok")
          => Len(response[1].json.harbor_images) = 15

C8_Witness ==
    /\ pc = "done"
    /\ registry = ExampleRegistry
    /\ process.outcome = "nonzero"
    /\ \A k \in RequestIndices : requests[k].outcome = "ok"
    /\ Len(response[1].json.harbor_images) = 15
    /\ Len(response[1].json.errors) = 1
    /\ response[1].json.errors[1].source = "containerd"

---------------------------------------------------------------------------
(* C9 *)

Slashes(s) == {i \in 1..Len(s) : s[i] = "/"}

\* the name without its leading "<project>/", else the part after the first
\* "/", else the whole name
Stripped(name, project) ==
    LET prefixed == /\ Len(name) > Len(project)
                    /\ \A i \in 1..Len(project) : name[i] = project[i]
                    /\ name[Len(project) + 1] = "/"
        start == IF prefixed THEN Len(project) + 2
                 ELSE IF Slashes(name) = {} THEN 1
                 ELSE (CHOOSE i \in Slashes(name) :
                          \A k \in Slashes(name) : i <= k) + 1
    IN  [i \in 1..(Len(name) - start + 1) |-> name[start + i - 1]]

ReferenceEncoding(name, project) ==
    LET stripped == Stripped(name, project)
    IN  Concat([i \in 1..Len(stripped) |->
                   IF stripped[i] = "/" THEN <<"%", "2", "5", "2", "F">>
                   ELSE <<stripped[i]>>])

\* C9: encode_repository_name returns the reference encoding; the result has
\* no "/", is the stripped name itself when that has no "/", and the two
\* documented examples give "nvidia%252Fpytorch" and "my-image".
C9_EncodeMatchesReference ==
    enc_pc = "returned" =>
        /\ encoded_name = ReferenceEncoding(full_repo_name, project_name)
        /\ Slashes(encoded_name) = {}
        /\ Slashes(Stripped(full_repo_name, project_name)) = {}
              => encoded_name = Stripped(full_repo_name, project_name)
        /\ (full_repo_name = NvcrPytorch /\ project_name = NvcrProject)
              => encoded_name = <<"n", "v", "i", "d", "i", "a", "%", "2", "5",
                                  "2", "F", "p", "y", "t", "o", "r", "c", "h">>
        /\ (full_repo_name = CustomMyImage /\ project_name = CustomProject)
              => encoded_name = <<"m", "y", "-", "i", "m", "a", "g", "e">>

C9_Witness ==
    /\ enc_pc = "returned"
    /\ full_repo_name = NvcrPytorch
    /\ project_name = NvcrProject
    /\ Len(encoded_name) = 18

---------------------------------------------------------------------------
(* C10 *)

ErrorsWellShaped ==
    /\ Cardinality(ContainerdErrors) <= 1
    /\ Cardinality(UnscopedHarborErrors) <= 1
    /\ \A c \in ContainerdErrors : \A h \in HarborErrors : c < h
    /\ \A s \in ScopedHarborErrors : \A u \in UnscopedHarborErrors : s < u

\* C10: every step only appends to the errors list, which holds at most one
\* containerd error, before every harbor error, and at most one harbor error
\* without a repository field, after every repository-scoped one.
C10_ErrorsAppendOnly ==
    [][/\ IsPrefix(result.errors, result.errors')
       /\ ErrorsWellShaped
       /\ ErrorsWellShaped']_vars

C10_Witness ==
    /\ pc = "done"
    /\ ContainerdErrors # {}
    /\ ScopedHarborErrors # {}
    /\ requests # <<>>
    /\ requests[Len(requests)].url.collection = "repositories"
    /\ requests[Len(requests)].outcome = "fail"
    /\ Len(response[1].json.errors) >= 3

====
